---- MODULE Spec2Model ----
(***************************************************************************)
(* The buffered, split-capable frame transport of amqprs                   *)
(* (src/amqprs/src/net/split_connection.rs): SplitConnection, BufWriter    *)
(* and BufReader, over a duplex byte stream.  The frame codec              *)
(* (crate::frame, amqp_serde) lives outside this file; it is modelled from *)
(* the wire format of the specification.                                   *)
(***************************************************************************)
EXTENDS Integers, Sequences, FiniteSets, TLC

(* ------------------------------ bounds -------------------------------- *)
\* longest method payload, in bytes
MaxPayload == 1
\* size of a scenario: units the peer sends, calls made on the writer and
\* stream reads that fail
MaxOps == 2
\* read_frame calls made on the reader
MaxReadCalls == 3
\* length-field scenario: every payload size up to this one is tried
MaxSmallLength == 300

(* --------------------------- byte helpers ----------------------------- *)
U16BE(n) == << (n \div 256) % 256, n % 256 >>

\* the four bytes of n, least significant byte first
U32BE_little(n) ==
  << n % 256, (n \div 256) % 256, (n \div 65536) % 256, (n \div 16777216) % 256 >>

\* (n as u32).to_be_bytes(): the low 32 bits of n, most significant byte first
U32BE(n) ==
  << (n \div 16777216) % 256, (n \div 65536) % 256, (n \div 256) % 256, n % 256 >>

FromU16BE(b) == b[1] * 256 + b[2]

\* a length of 2^31 or more is larger than any buffer of the model: it is
\* read as the largest length the checker's integers hold
FromU32BE(b) ==
  IF b[1] > 127 THEN 2147483647
  ELSE b[1] * 16777216 + b[2] * 65536 + b[3] * 256 + b[4]

Take(s, k) == SubSeq(s, 1, k)

Drop(s, k) == SubSeq(s, k + 1, Len(s))

RECURSIVE Flatten(_)
Flatten(ss) == IF ss = << >> THEN << >> ELSE Head(ss) \o Flatten(Tail(ss))

(* ---------------------------- frame codec ----------------------------- *)
FRAME_END == 206
FRAME_METHOD == 1
FRAME_HEARTBEAT == 8
FRAME_HEADER_SIZE == 7

HeartBeat == [kind |-> "HeartBeat", args |-> << >>]
Method(p) == [kind |-> "Method", args |-> p]
NoFrame == [kind |-> "None", args |-> << >>]

\* the k-byte method payload used in the scenarios: bytes 17, 18, ...
Payload(k) == [i \in 1..k |-> 16 + i]

\* the (channel, frame) pairs handed to write_frame and sent by the peer
ChannelFrames ==
  {<<1, HeartBeat>>} \cup {<<0, Method(Payload(k))>> : k \in 1..MaxPayload}

get_frame_type(frame) ==
  IF frame.kind = "HeartBeat" THEN FRAME_HEARTBEAT ELSE FRAME_METHOD

\* to_buffer(&header, ..): type, channel, payload_size
FrameHeader(frame_type, channel, payload_size) ==
  <<frame_type>> \o U16BE(channel) \o U32BE(payload_size)

\* to_buffer(&frame, ..): the payload bytes of a frame
SerializeFrame(frame) == frame.args

\* the raw value of the handshake, ProtocolHeader::default(): "AMQP" 0 0 9 1
ProtocolHeader == <<65, 77, 81, 80, 0, 0, 9, 1>>

\* Frame::decode(buf): "None" (incomplete), "Err" (corrupted) or
\* "Some" with the consumed length, the channel and the frame
Frame_decode(buf) ==
  LET none == [tag |-> "None", len |-> 0, channel |-> 0, frame |-> NoFrame]
      err  == [tag |-> "Err", len |-> 0, channel |-> 0, frame |-> NoFrame]
  IN
  IF Len(buf) < FRAME_HEADER_SIZE THEN none
  ELSE
    LET frame_type   == buf[1]
        channel      == FromU16BE(SubSeq(buf, 2, 3))
        payload_size == FromU32BE(SubSeq(buf, 4, 7))
        total_size   == payload_size + FRAME_HEADER_SIZE + 1
    IN
    IF payload_size > Len(buf) - FRAME_HEADER_SIZE - 1 THEN none
    ELSE IF buf[total_size] # FRAME_END THEN err
    ELSE IF frame_type = FRAME_HEARTBEAT
      THEN [tag |-> "Some", len |-> total_size, channel |-> channel,
            frame |-> HeartBeat]
    ELSE IF frame_type = FRAME_METHOD
      THEN [tag |-> "Some", len |-> total_size, channel |-> channel,
            frame |-> Method(SubSeq(buf, 8, total_size - 1))]
    ELSE err


\* one structurally valid frame on the wire (the wire format): type, channel,
\* length of the payload, the payload, the frame-end marker
WireFrame(channel, frame) ==
  <<get_frame_type(frame)>> \o U16BE(channel)
    \o U32BE(Len(SerializeFrame(frame))) \o SerializeFrame(frame) \o <<FRAME_END>>

(* ------------------------------ the peer ------------------------------ *)
\* what a peer may send as one unit: a valid frame, a frame whose end
\* marker is wrong, a frame of an unknown type
BadEnd(u) == [u EXCEPT ![Len(u)] = 0]
BadType(u) == [u EXCEPT ![1] = 9]

PeerUnits ==
  {WireFrame(cf[1], cf[2]) : cf \in ChannelFrames}
    \cup {BadEnd(WireFrame(0, Method(Payload(1)))), BadType(WireFrame(1, HeartBeat))}

(* ------------------------------- state -------------------------------- *)
VARIABLES
  split,       \* the connection has been decomposed by into_split
  cpc,         \* SplitConnection::close: "none", "closing", "done"
  closelog,    \* the order in which close reached the two halves
  wbuf,        \* BufWriter.buffer
  wpc,         \* writer: "idle", "flush", "shutdown", "closed", "dropped"
  wcall,       \* the writer call in progress, or the last one
  wire,        \* per flush: the bytes handed to the stream and those it took
  sent,        \* (channel, frame) of every write_frame that returned Ok
  fin,         \* the peer has seen the half-close of the write direction
  rbuf,        \* BufReader.buffer
  rpc,         \* reader: "idle", "reading", "closed"
  rlog,        \* the result of every read_frame call, in order
  lastDecode,  \* the last BufReader::decode call: buffer before, result, buffer after
  rcvd,        \* every byte the reader's stream reads have taken, in order
  pending,     \* inbound bytes the peer has sent and no stream read has taken
  pclosed,     \* the peer has ended the inbound stream
  budget,      \* peer units, writer calls and failed reads the scenario may still add
  sread,       \* the read_frame call in progress, or the last one, has read the stream
  finBefore,   \* the half-close of BufWriter::close came before any byte of the peer
  psize,       \* length-field scenario: the payload size write_frame computed
  lenfield     \* length-field scenario: bytes 3..6 of the buffer after the patch

cvars == <<split, cpc, closelog, finBefore>>
wvars == <<wbuf, wpc, wcall, wire, sent, fin>>
rvars == <<rbuf, rpc, rlog, lastDecode, rcvd, sread>>
pvars == <<pending, pclosed>>
lvars == <<psize, lenfield>>
vars == <<split, cpc, closelog, wbuf, wpc, wcall, wire, sent, fin,
          rbuf, rpc, rlog, lastDecode, rcvd, pending, pclosed, budget,
          sread, finBefore, psize, lenfield>>

NoCall ==
  [op |-> "none", channel |-> 0, frame |-> NoFrame, pre |-> << >>,
   handed |-> << >>, res |-> "none", ret |-> 0]

NoDecode == [before |-> << >>, out |-> "none", after |-> << >>]

\* SplitConnection::open: a connected stream, two empty buffers
Init ==
  /\ split = FALSE
  /\ cpc = "none"
  /\ closelog = << >>
  /\ wbuf = << >>
  /\ wpc = "idle"
  /\ wcall = NoCall
  /\ wire = << >>
  /\ sent = << >>
  /\ fin = FALSE
  /\ rbuf = << >>
  /\ rpc = "idle"
  /\ rlog = << >>
  /\ lastDecode = NoDecode
  /\ rcvd = << >>
  /\ pending = << >>
  /\ pclosed = FALSE
  /\ budget = MaxOps
  /\ sread = FALSE
  /\ finBefore = FALSE
  /\ psize = 0
  /\ lenfield = << >>

(* --------------------- the peer's end of the stream ------------------- *)
\* the peer sends one unit
peer_send ==
  /\ ~pclosed /\ budget > 0
  /\ \E u \in PeerUnits : pending' = pending \o u
  /\ budget' = budget - 1
  /\ UNCHANGED <<pclosed, cvars, wvars, rvars, lvars>>

\* the peer ends the stream between two units
peer_close ==
  /\ ~pclosed
  /\ pclosed' = TRUE
  /\ UNCHANGED <<pending, budget, cvars, wvars, rvars, lvars>>

\* where the peer may stop inside a frame of n bytes: inside its header,
\* before its end marker
AbortCuts(n) == {5, n - 1}

\* the peer ends the stream inside a frame: k of its bytes, then the end
peer_abort ==
  /\ ~pclosed /\ budget > 0
  /\ \E cf \in ChannelFrames :
       LET u == WireFrame(cf[1], cf[2])
       IN  \E k \in AbortCuts(Len(u)) : pending' = pending \o Take(u, k)
  /\ pclosed' = TRUE
  /\ budget' = budget - 1
  /\ UNCHANGED <<cvars, wvars, rvars, lvars>>

(* ------------------------------ BufWriter ----------------------------- *)
\* where an operation on n bytes may stop when it fails: before the last byte
Cuts(n) == {n - 1} \cap 0..(n - 1)

\* BytesMut::advance(n): drop the first n bytes
Advance(buffer, n) == Drop(buffer, n)

\* a writer that may only start while the reader is idle, split or not
WriterMayStart_locked == cpc = "none" /\ wpc = "idle" /\ rpc = "idle"

\* a reader that may no longer start once the write direction is shut down
ReaderMayStart_until_fin ==
  cpc = "none" /\ rpc = "idle" /\ (split \/ wpc = "idle") /\ ~fin

\* the unsplit connection is borrowed mutably by one call at a time; the two
\* halves of a split connection are driven independently
WriterMayStart == cpc = "none" /\ wpc = "idle" /\ (split \/ rpc = "idle")
ReaderMayStart == cpc = "none" /\ rpc = "idle" /\ (split \/ wpc = "idle")

\* write_frame, lines 100-105: the header with payload_size 0 goes to the buffer
ReserveHeader(buffer, channel, frame) ==
  buffer \o FrameHeader(get_frame_type(frame), channel, 0)

\* write_frame, lines 111-114: the big-endian payload size over bytes 3..6
\* (0-based) of the buffer
PatchPayloadSize(buffer, payload_size) ==
  LET b == U32BE(payload_size)
  IN  [i \in 1..Len(buffer) |->
         IF i \in 4..7 THEN b[i - 3] ELSE buffer[i]]

\* an encoding that leaves the frame-end byte out
EncodeFrame_no_end(buffer, channel, frame) ==
  PatchPayloadSize(ReserveHeader(buffer, channel, frame) \o SerializeFrame(frame),
                   Len(SerializeFrame(frame)))

\* write_frame, lines 100-117, when the payload serializes: the buffer that
\* is then flushed
EncodeFrame(buffer, channel, frame) ==
  LET withHeader   == ReserveHeader(buffer, channel, frame)
      payload_size == Len(SerializeFrame(frame))
      withPayload  == withHeader \o SerializeFrame(frame)
  IN  PatchPayloadSize(withPayload, payload_size) \o <<FRAME_END>>

\* BufWriter::write up to its await (lines 85-88): the value is serialized
\* into the buffer; a serialization error returns with what was written
BufWriter_write ==
  /\ WriterMayStart /\ budget > 0
  /\ \E value \in {ProtocolHeader} :
       \/ /\ wbuf' = wbuf \o value
          /\ wpc' = "flush"
          /\ wcall' = [NoCall EXCEPT !.op = "write", !.pre = wbuf, !.res = "pending"]
       \/ \E j \in Cuts(Len(value)) :
            /\ wbuf' = wbuf \o Take(value, j)
            /\ wpc' = "idle"
            /\ wcall' = [NoCall EXCEPT !.op = "write", !.pre = wbuf, !.res = "SerializeError"]
  /\ budget' = budget - 1
  /\ UNCHANGED <<wire, sent, fin, cvars, rvars, pvars, lvars>>

\* BufWriter::write_frame up to its await (lines 100-120); a payload that
\* fails to serialize returns the error with the header, and what was
\* written of the payload, left in the buffer
BufWriter_write_frame ==
  /\ WriterMayStart /\ budget > 0
  /\ \E cf \in ChannelFrames :
       LET channel == cf[1]
           frame   == cf[2]
           call    == [NoCall EXCEPT !.op = "write_frame", !.channel = channel,
                                     !.frame = frame, !.pre = wbuf]
       IN
       \/ /\ wbuf' = EncodeFrame(wbuf, channel, frame)
          /\ wpc' = "flush"
          /\ wcall' = [call EXCEPT !.res = "pending"]
       \/ \E j \in 0..(Len(SerializeFrame(frame)) - 1) :
            /\ wbuf' = ReserveHeader(wbuf, channel, frame) \o Take(SerializeFrame(frame), j)
            /\ wpc' = "idle"
            /\ wcall' = [call EXCEPT !.res = "SerializeError"]
  /\ budget' = budget - 1
  /\ UNCHANGED <<wire, sent, fin, cvars, rvars, pvars, lvars>>

\* the buffer after a flush that completed: write lines 87-89, write_frame
\* lines 123-124
Drained(buffer) == Advance(buffer, Len(buffer))

\* stream.write_all(&self.buffer) completes: the stream has taken the whole
\* buffer, which is then drained, and the call returns Ok(len)
write_all_ok ==
  /\ wpc = "flush"
  /\ wire' = Append(wire, [op |-> wcall.op, handed |-> wbuf, taken |-> wbuf])
  /\ wcall' = [wcall EXCEPT !.res = "Ok", !.handed = wbuf, !.ret = Len(wbuf)]
  /\ sent' = IF wcall.op = "write_frame"
               THEN Append(sent, <<wcall.channel, wcall.frame>>) ELSE sent
  /\ wbuf' = Drained(wbuf)
  /\ wpc' = "idle"
  /\ UNCHANGED <<fin, budget, cvars, rvars, pvars, lvars>>

\* a failed flush that drains the bytes the stream took
write_all_err_drain ==
  /\ wpc = "flush"
  /\ \E k \in Cuts(Len(wbuf)) :
       /\ wire' = Append(wire, [op |-> wcall.op, handed |-> wbuf, taken |-> Take(wbuf, k)])
       /\ wbuf' = Drop(wbuf, k)
  /\ wcall' = [wcall EXCEPT !.res = "IoError", !.handed = wbuf]
  /\ wpc' = "idle"
  /\ UNCHANGED <<sent, fin, budget, cvars, rvars, pvars, lvars>>

\* stream.write_all fails after the stream took k bytes: the call returns the
\* transport error through `?`, the buffer is not touched
write_all_err ==
  /\ wpc = "flush"
  /\ \E k \in Cuts(Len(wbuf)) :
       wire' = Append(wire, [op |-> wcall.op, handed |-> wbuf, taken |-> Take(wbuf, k)])
  /\ wcall' = [wcall EXCEPT !.res = "IoError", !.handed = wbuf]
  /\ wpc' = "idle"
  /\ UNCHANGED <<wbuf, sent, fin, budget, cvars, rvars, pvars, lvars>>

\* what close() reaches, in order
LogReaderClose(log) == Append(log, "reader.close")
LogWriterShutdown(log) == Append(log, "writer.shutdown")

\* BufWriter::close up to its await (line 131): the writer is consumed and
\* the shutdown of the write direction is started
BufWriter_close ==
  /\ split /\ wpc = "idle"
  /\ wpc' = "shutdown"
  /\ closelog' = LogWriterShutdown(closelog)
  /\ UNCHANGED <<split, cpc, finBefore, wbuf, wcall, wire, sent, fin, budget, rvars, pvars, lvars>>

\* stream.shutdown() completes: the peer sees the half-close
shutdown_ok ==
  /\ wpc = "shutdown"
  /\ wpc' = "closed"
  /\ fin' = TRUE
  /\ cpc' = IF cpc = "closing" THEN "done" ELSE cpc
  /\ finBefore' = (cpc = "none" /\ rcvd = << >> /\ pending = << >> /\ ~pclosed)
  /\ UNCHANGED <<split, closelog, wbuf, wcall, wire, sent, budget, rvars, pvars, lvars>>

\* stream.shutdown() fails: close returns the transport error, the writer is gone
shutdown_err ==
  /\ wpc = "shutdown"
  /\ wpc' = "closed"
  /\ cpc' = IF cpc = "closing" THEN "done" ELSE cpc
  /\ UNCHANGED <<split, closelog, finBefore, wbuf, wcall, wire, sent, fin, budget, rvars, pvars, lvars>>

\* a drop of the writer that leaves the write direction as it was
DropHalfClose_silent(f) == f

\* the state of the write direction, as the peer sees it, after the writer
\* has been dropped: BufWriter has no Drop of its own, so its fields are
\* dropped, and the stream field (line 30) is a tokio OwnedWriteHalf, which
\* shuts the write direction down when it is dropped
DropHalfClose(f) == TRUE

\* the writer half is dropped without a call of close: the bytes still in
\* its buffer go with it, nothing is handed to the stream
BufWriter_drop ==
  /\ split /\ wpc = "idle"
  /\ wpc' = "dropped"
  /\ fin' = DropHalfClose(fin)
  /\ UNCHANGED <<wbuf, wcall, wire, sent, budget, cvars, rvars, pvars, lvars>>

(* ------------------------------ BufReader ----------------------------- *)
\* a decode that leaves the last byte of the frame it returns in the buffer
BufReader_decode_short(buffer) ==
  LET d == Frame_decode(buffer)
  IN  IF d.tag = "Some"
        THEN [out |-> "Some", channel |-> d.channel, frame |-> d.frame,
              buffer |-> Advance(buffer, d.len - 1)]
        ELSE [out |-> d.tag, channel |-> 0, frame |-> NoFrame, buffer |-> buffer]

\* a decode that throws the buffered bytes away when no frame is complete
BufReader_decode_clear(buffer) ==
  LET d == Frame_decode(buffer)
  IN  IF d.tag = "Some"
        THEN [out |-> "Some", channel |-> d.channel, frame |-> d.frame,
              buffer |-> Advance(buffer, d.len)]
        ELSE [out |-> d.tag, channel |-> 0, frame |-> NoFrame,
              buffer |-> IF d.tag = "None" THEN << >> ELSE buffer]

\* a decode that drops the first byte of a buffer it finds corrupted
BufReader_decode_skip(buffer) ==
  LET d == Frame_decode(buffer)
  IN  IF d.tag = "Some"
        THEN [out |-> "Some", channel |-> d.channel, frame |-> d.frame,
              buffer |-> Advance(buffer, d.len)]
        ELSE [out |-> d.tag, channel |-> 0, frame |-> NoFrame,
              buffer |-> IF d.tag = "Err" THEN Advance(buffer, 1) ELSE buffer]

\* a decode that empties the buffer when it returns a frame
BufReader_decode_drain(buffer) ==
  LET d == Frame_decode(buffer)
  IN  IF d.tag = "Some"
        THEN [out |-> "Some", channel |-> d.channel, frame |-> d.frame,
              buffer |-> Advance(buffer, Len(buffer))]
        ELSE [out |-> d.tag, channel |-> 0, frame |-> NoFrame, buffer |-> buffer]

\* BufReader::decode (lines 142-154): the result and the buffer it leaves
BufReader_decode(buffer) ==
  LET d == Frame_decode(buffer)
  IN  IF d.tag = "Some"
        THEN [out |-> "Some", channel |-> d.channel, frame |-> d.frame,
              buffer |-> Advance(buffer, d.len)]
        ELSE [out |-> d.tag, channel |-> 0, frame |-> NoFrame, buffer |-> buffer]

\* what one read_frame call returned; eof: it returned on a 0-byte stream read
Returned(kind, channel, frame, eof) ==
  [kind |-> kind, channel |-> channel, frame |-> frame, eof |-> eof]

\* what read_frame does with the result of a decode (lines 159-162, 176-180):
\* a frame or an error ends the call, None goes on to the stream
AfterDecode(before, d) ==
  /\ lastDecode' = [before |-> before, out |-> d.out, after |-> d.buffer]
  /\ rbuf' = d.buffer
  /\ IF d.out = "Some"
       THEN rlog' = Append(rlog, Returned("Frame", d.channel, d.frame, FALSE)) /\ rpc' = "idle"
     ELSE IF d.out = "Err"
       THEN rlog' = Append(rlog, Returned("Corrupted", 0, NoFrame, FALSE)) /\ rpc' = "idle"
     ELSE rlog' = rlog /\ rpc' = "reading"

\* a stream read has failed; the scenarios make no read_frame call after that
StreamBroken == \E i \in 1..Len(rlog) : rlog[i].kind = "IoError"

\* a read_frame that goes to the stream without decoding what is buffered
BufReader_read_frame_unbuffered ==
  /\ ReaderMayStart /\ Len(rlog) < MaxReadCalls /\ ~StreamBroken
  /\ rpc' = "reading"
  /\ sread' = FALSE
  /\ UNCHANGED <<rbuf, rlog, lastDecode, rcvd, budget, cvars, wvars, pvars, lvars>>

\* BufReader::read_frame up to its first await (lines 159-165)
BufReader_read_frame ==
  /\ ReaderMayStart /\ Len(rlog) < MaxReadCalls /\ ~StreamBroken
  /\ AfterDecode(rbuf, BufReader_decode(rbuf))
  /\ sread' = FALSE
  /\ UNCHANGED <<rcvd, budget, cvars, wvars, pvars, lvars>>

\* a classification with the two kinds exchanged
CloseKind_swapped(buffer) ==
  IF buffer = << >> THEN "Interrupted" ELSE "CloseCallbackError"

\* the error read_frame returns when the stream read gives 0 bytes (lines 166-172)
CloseKind(buffer) ==
  IF buffer = << >> THEN "CloseCallbackError" ELSE "Interrupted"

\* a read that overwrites the buffered bytes instead of appending to them
Fill_overwrite(buffer, bytes) == bytes

\* read_buf(&mut self.buffer) (line 165): the bytes read go after the
\* bytes already buffered
Fill(buffer, bytes) == buffer \o bytes

\* stream.read_buf gives n > 0 bytes, appended to the buffer, and the loop
\* decodes again (lines 165, 176-180)
read_buf_some ==
  /\ rpc = "reading"
  /\ \E n \in 1..Len(pending) :
       LET filled == Fill(rbuf, Take(pending, n))
       IN  /\ pending' = Drop(pending, n)
           /\ rcvd' = rcvd \o Take(pending, n)
           /\ AfterDecode(filled, BufReader_decode(filled))
  /\ sread' = TRUE
  /\ UNCHANGED <<pclosed, budget, cvars, wvars, lvars>>

\* a 0-byte read that throws the buffered bytes away
read_buf_eof_discard ==
  /\ rpc = "reading"
  /\ pending = << >> /\ pclosed
  /\ rlog' = Append(rlog, Returned(CloseKind(rbuf), 0, NoFrame, TRUE))
  /\ rbuf' = << >>
  /\ rpc' = "idle"
  /\ sread' = TRUE
  /\ UNCHANGED <<lastDecode, rcvd, budget, cvars, wvars, pvars, lvars>>

\* a 0-byte read after which the loop goes on to the next stream read
read_buf_eof_retry ==
  /\ rpc = "reading"
  /\ pending = << >> /\ pclosed
  /\ sread' = TRUE
  /\ UNCHANGED <<rbuf, rpc, rlog, lastDecode, rcvd, budget, cvars, wvars, pvars, lvars>>

\* stream.read_buf gives 0 bytes: the peer has ended the stream and all its
\* bytes have been read (lines 166-172)
read_buf_eof ==
  /\ rpc = "reading"
  /\ pending = << >> /\ pclosed
  /\ rlog' = Append(rlog, Returned(CloseKind(rbuf), 0, NoFrame, TRUE))
  /\ rpc' = "idle"
  /\ sread' = TRUE
  /\ UNCHANGED <<rbuf, lastDecode, rcvd, budget, cvars, wvars, pvars, lvars>>

\* stream.read_buf fails: read_frame returns the transport error through `?`,
\* the buffer is as it was (line 165)
read_buf_err ==
  /\ rpc = "reading" /\ budget > 0
  /\ rlog' = Append(rlog, Returned("IoError", 0, NoFrame, FALSE))
  /\ rpc' = "idle"
  /\ budget' = budget - 1
  /\ sread' = TRUE
  /\ UNCHANGED <<rbuf, lastDecode, rcvd, cvars, wvars, pvars, lvars>>

\* BufReader::close (line 185): consumes the reader, nothing else
BufReader_close ==
  /\ split /\ rpc = "idle"
  /\ rpc' = "closed"
  /\ closelog' = LogReaderClose(closelog)
  /\ UNCHANGED <<split, cpc, finBefore, rbuf, rlog, lastDecode, rcvd, sread, budget, wvars, pvars, lvars>>

(* --------------------------- SplitConnection -------------------------- *)
\* SplitConnection::into_split (lines 57-59)
SplitConnection_into_split ==
  /\ ~split /\ cpc = "none" /\ wpc = "idle" /\ rpc = "idle"
  /\ split' = TRUE
  /\ UNCHANGED <<cpc, closelog, finBefore, budget, wvars, rvars, pvars, lvars>>

\* a close that shuts the write direction down before it releases the reader
CloseOrder_writer_first(log) == LogReaderClose(LogWriterShutdown(log))

\* the order in which SplitConnection::close reaches the two halves (lines 65-66)
CloseOrder(log) == LogWriterShutdown(LogReaderClose(log))

\* SplitConnection::close up to its await (lines 64-66): reader.close()
\* completes at once, writer.close() starts the shutdown
SplitConnection_close ==
  /\ ~split /\ cpc = "none" /\ wpc = "idle" /\ rpc = "idle"
  /\ cpc' = "closing"
  /\ closelog' = CloseOrder(closelog)
  /\ rpc' = "closed"
  /\ wpc' = "shutdown"
  /\ UNCHANGED <<split, wbuf, wcall, wire, sent, fin>>
  /\ UNCHANGED <<rbuf, rlog, lastDecode, rcvd, sread, budget, pvars>>
  /\ UNCHANGED <<finBefore, lvars>>

Next ==
  \/ SplitConnection_into_split
  \/ SplitConnection_close
  \/ BufWriter_write
  \/ BufWriter_write_frame
  \/ write_all_ok
  \/ write_all_err
  \/ BufWriter_close
  \/ BufWriter_drop
  \/ shutdown_ok
  \/ shutdown_err
  \/ BufReader_read_frame
  \/ read_buf_some
  \/ read_buf_eof
  \/ read_buf_err
  \/ BufReader_close
  \/ peer_send
  \/ peer_close
  \/ peer_abort

Spec == Init /\ [][Next]_vars

\* the steps of the reader, of the peer and of the connection as a whole;
\* the writer's write and write_frame calls, which share nothing with
\* read_frame, are left out
NextRead ==
  \/ SplitConnection_into_split
  \/ SplitConnection_close
  \/ BufWriter_close
  \/ BufWriter_drop
  \/ shutdown_ok
  \/ shutdown_err
  \/ BufReader_read_frame
  \/ read_buf_some
  \/ read_buf_eof
  \/ read_buf_err
  \/ BufReader_close
  \/ peer_send
  \/ peer_close
  \/ peer_abort

\* the reader's task is polled when its stream has bytes or has ended: a
\* stream read that can complete does complete
SpecLive ==
  Init /\ [][NextRead]_vars /\ WF_vars(read_buf_some) /\ WF_vars(read_buf_eof)

(* ---------------- the length field of write_frame, alone --------------- *)
\* the payload sizes of the scenario: every small size, and the sizes around
\* the byte boundaries up to the largest integer of the checker
LengthCases == {0, 1, 255, 256, 65535, 65536, 16777216}

LengthInputs ==
  (0..MaxSmallLength) \cup LengthCases
    \cup {65537, 16777215, 16777217, 2147483647}

\* write_frame on an empty buffer after line 108: the header with
\* payload_size 0 is in the buffer, the payload of psize bytes behind it is
\* left out of the scenario (the patch does not touch it)
InitLen ==
  /\ split = FALSE /\ cpc = "none" /\ closelog = << >> /\ finBefore = FALSE
  /\ wpc = "idle" /\ wcall = NoCall /\ wire = << >> /\ sent = << >> /\ fin = FALSE
  /\ rbuf = << >> /\ rpc = "idle" /\ rlog = << >> /\ lastDecode = NoDecode
  /\ rcvd = << >> /\ sread = FALSE
  /\ pending = << >> /\ pclosed = FALSE /\ budget = 0
  /\ \E cf \in ChannelFrames : wbuf = ReserveHeader(<< >>, cf[1], cf[2])
  /\ psize \in LengthInputs
  /\ lenfield = << >>

\* lines 111-114: the payload size is written over the length field
patch_length ==
  /\ lenfield = << >>
  /\ wbuf' = PatchPayloadSize(wbuf, psize)
  /\ lenfield' = SubSeq(wbuf', 4, 7)
  /\ UNCHANGED <<psize, wpc, wcall, wire, sent, fin, budget, cvars, rvars, pvars>>

NextLen == patch_length

SpecLen == InitLen /\ [][NextLen]_vars

(* ---------------------- properties of the writer ---------------------- *)
Last(q) == q[Len(q)]

\* b is exactly one structurally valid frame carrying (channel, frame)
IsFrameOf(b, channel, frame) ==
  LET N == Len(SerializeFrame(frame))
  IN  /\ Len(b) = FRAME_HEADER_SIZE + N + 1
      /\ b[1] = get_frame_type(frame)
      /\ FromU16BE(SubSeq(b, 2, 3)) = channel
      /\ FromU32BE(SubSeq(b, 4, 7)) = N
      /\ SubSeq(b, 8, 7 + N) = SerializeFrame(frame)
      /\ b[8 + N] = FRAME_END

\* b is a concatenation of whole frames: header, payload of the announced
\* length, end marker, again and again
RECURSIVE IsWholeFrames(_)
IsWholeFrames(b) ==
  \/ b = << >>
  \/ /\ Len(b) >= FRAME_HEADER_SIZE + 1
     /\ b[1] \in {FRAME_METHOD, FRAME_HEARTBEAT}
     /\ LET N == FromU32BE(SubSeq(b, 4, 7))
        IN  /\ N <= Len(b) - FRAME_HEADER_SIZE - 1
            /\ b[8 + N] = FRAME_END
            /\ IsWholeFrames(Drop(b, 8 + N))

\* the bytes the write_frame calls handed to the stream, in order
HandedByWriteFrame ==
  Flatten([i \in 1..Len(wire) |->
             IF wire[i].op = "write_frame" THEN wire[i].handed ELSE << >>])

\* the bytes the stream took from the write_frame calls that returned Ok
ProducedByWriteFrame ==
  Flatten([i \in 1..Len(wire) |->
             IF wire[i].op = "write_frame" /\ wire[i].taken = wire[i].handed
               THEN wire[i].taken ELSE << >>])

\* the (channel, frame) pairs a reader gets out of a byte stream: decode,
\* consume, decode again, until no whole frame is left
RECURSIVE FramesIn(_)
FramesIn(b) ==
  LET d == Frame_decode(b)
  IN  IF d.tag = "Some"
        THEN << <<d.channel, d.frame>> >> \o FramesIn(Drop(b, d.len))
        ELSE << >>

\* C1: the writer's buffer is empty at the moment every write or write_frame
\* call begins, also after calls that returned an error.
C1_BufferEmptyAtCallStart ==
  wcall.op # "none" => wcall.pre = << >>

\* C2: the bytes a successful write_frame hands to the stream are one
\* structurally valid frame of its channel and payload, in any writer state.
C2_SuccessHandsOneValidFrame ==
  (wcall.op = "write_frame" /\ wcall.res = "Ok")
    => IsFrameOf(wcall.handed, wcall.channel, wcall.frame)

\* C3: the bytes write_frame calls have handed to the stream are always a
\* concatenation of whole frames; no header goes without payload and end marker.
C3_OnlyWholeFramesHanded ==
  IsWholeFrames(HandedByWriteFrame)

\* C4: a reader fed the bytes of the successful write_frame calls gets exactly
\* the (channel, frame) pairs sent, in order.
C4_RoundTrip ==
  FramesIn(ProducedByWriteFrame) = sent


(* ---------------------- properties of the reader ---------------------- *)
IsFrameResult(r) == r.kind = "Frame"

IsStreamResult(r) == r.kind # "IoError"

\* the frames the read_frame calls have returned, and their bytes on the wire
ReturnedFrames == SelectSeq(rlog, IsFrameResult)

ReturnedBytes ==
  Flatten([i \in 1..Len(ReturnedFrames) |->
             WireFrame(ReturnedFrames[i].channel, ReturnedFrames[i].frame)])

\* b holds fewer bytes than one complete frame: less than a header, or less
\* than the header, the payload it announces and the end marker
FewerThanOneFrame(b) ==
  \/ Len(b) < FRAME_HEADER_SIZE
  \/ Len(b) - FRAME_HEADER_SIZE - 1 < FromU32BE(SubSeq(b, 4, 7))

\* the results of n successive read_frame calls when the whole stream b
\* arrives in one stream read
RECURSIVE OneReadResults(_, _)
OneReadResults(b, n) ==
  IF n = 0 THEN << >>
  ELSE
    LET d == Frame_decode(b)
    IN  IF d.tag = "Some"
          THEN <<Returned("Frame", d.channel, d.frame, FALSE)>>
                 \o OneReadResults(Drop(b, d.len), n - 1)
        ELSE IF d.tag = "Err"
          THEN <<Returned("Corrupted", 0, NoFrame, FALSE)>> \o OneReadResults(b, n - 1)
        ELSE IF pclosed /\ pending = << >>
          THEN <<Returned(IF b = << >> THEN "CloseCallbackError" ELSE "Interrupted",
                          0, NoFrame, TRUE)>> \o OneReadResults(b, n - 1)
        ELSE << >>

\* C5: when read_frame has returned a frame, the reader's buffer is the bytes
\* received so far minus the bytes of the frames returned so far, each frame's
\* bytes consumed once.
C5_BufferIsUnconsumedTail ==
  (rlog # << >> /\ Last(rlog).kind = "Frame" /\ rpc # "reading")
    => /\ Len(ReturnedBytes) <= Len(rcvd)
       /\ ReturnedBytes = Take(rcvd, Len(ReturnedBytes))
       /\ rbuf = Drop(rcvd, Len(ReturnedBytes))

C5_Witness ==
  /\ rpc = "idle" /\ rlog # << >> /\ Last(rlog).kind = "Frame"
  /\ rbuf # << >> /\ Len(ReturnedBytes) > FRAME_HEADER_SIZE + 1

\* C6: the results of successive read_frame calls, frames and close
\* classification, are those of the stream delivered in one read, however the
\* stream is cut into stream reads (calls that a transport error ended return
\* no result of the stream).
C6_FragmentationEquivalence ==
  LET ref == OneReadResults(rcvd, MaxReadCalls)
      got == SelectSeq(rlog, IsStreamResult)
  IN  /\ Len(got) <= Len(ref)
      /\ got = Take(ref, Len(got))

C6_Witness ==
  /\ Len(rlog) >= 2 /\ rlog[1].kind = "Frame"
  /\ Last(rlog).eof /\ Last(rlog).kind = "Interrupted" /\ Len(rbuf) < FRAME_HEADER_SIZE

\* C7: on a 0-byte stream read, read_frame fails with CloseCallbackError iff
\* the buffer is empty and with Interrupted iff it is not; a non-empty buffer
\* is then less than one frame, never a complete frame.
C7_CloseClassification ==
  (rlog # << >> /\ Last(rlog).eof)
    => /\ Last(rlog).kind \in {"CloseCallbackError", "Interrupted"}
       /\ (Last(rlog).kind = "CloseCallbackError") <=> (rbuf = << >>)
       /\ (Last(rlog).kind = "Interrupted") <=> (rbuf # << >>)
       /\ FewerThanOneFrame(rbuf)

C7_Witness ==
  /\ rlog # << >> /\ Last(rlog).eof /\ Last(rlog).kind = "Interrupted"
  /\ Len(rbuf) >= FRAME_HEADER_SIZE

\* C8: decode on a buffer of fewer bytes than one complete frame returns
\* Ok(None) and leaves the buffer byte for byte as it was.
C8_PartialFrameNotConsumed ==
  (lastDecode.out # "none" /\ FewerThanOneFrame(lastDecode.before))
    => /\ lastDecode.out = "None"
       /\ lastDecode.after = lastDecode.before
       /\ rbuf = lastDecode.before

C8_Witness ==
  /\ lastDecode.out = "None" /\ Len(lastDecode.before) = 5
  /\ rbuf = lastDecode.before


(* -------------------- properties of the connection -------------------- *)
\* C9: after into_split no step of one half changes or waits for the state of
\* the other: a writer call can start and complete whatever the reader does,
\* also while read_frame is blocked on a silent peer, and the other way round.
C9_HalfIndependence ==
  /\ [](split =>
          /\ (wpc = "flush" => ENABLED write_all_ok)
          /\ (wpc = "idle" /\ budget > 0 => ENABLED BufWriter_write_frame)
          /\ (wpc = "idle" /\ budget > 0 => ENABLED BufWriter_write)
          /\ (rpc = "idle" /\ Len(rlog) < MaxReadCalls /\ ~StreamBroken
                => ENABLED BufReader_read_frame)
          /\ (rpc = "reading" /\ pending # << >> => ENABLED read_buf_some))
  /\ [][split => /\ (wvars' # wvars => rvars' = rvars /\ pvars' = pvars)
                 /\ (rvars' # rvars => wvars' = wvars)]_vars

C9_Witness ==
  /\ split /\ rpc = "reading" /\ pending = << >> /\ ~pclosed
  /\ wpc = "flush" /\ wcall.op = "write_frame"

\* e1 is reached before e2 in the log
Before(e1, e2, log) ==
  \E i, j \in 1..Len(log) : i < j /\ log[i] = e1 /\ log[j] = e2

\* C10 as stated: SplitConnection::close shuts the write direction down first
\* and discards the read half only after that.
C10_WriteShutdownFirst ==
  cpc # "none" => Before("writer.shutdown", "reader.close", closelog)

\* C10 as amended: SplitConnection::close discards the read half first and
\* starts the shutdown of the write direction only after that.
C10_ReaderReleasedFirst ==
  cpc # "none" => Before("reader.close", "writer.shutdown", closelog)

C10_Witness ==
  cpc = "done" /\ fin /\ rpc = "closed" /\ wpc = "closed"

\* BufWriter::close has returned Ok on the writer half of a split connection
HalfClosed == split /\ cpc = "none" /\ wpc = "closed" /\ fin

\* the (channel, frame) pairs the read_frame calls have returned
ReturnedPairs ==
  [i \in 1..Len(ReturnedFrames) |->
     <<ReturnedFrames[i].channel, ReturnedFrames[i].frame>>]

ExpectedField(n) ==
  CASE n = 0 -> <<0, 0, 0, 0>>
    [] n = 1 -> <<0, 0, 0, 1>>
    [] n = 255 -> <<0, 0, 0, 255>>
    [] n = 256 -> <<0, 0, 1, 0>>
    [] n = 65535 -> <<0, 0, 255, 255>>
    [] n = 65536 -> <<0, 1, 0, 0>>
    [] n = 16777216 -> <<1, 0, 0, 0>>

\* C15: after the patch of write_frame on an empty buffer, bytes 3..6 of the
\* frame are four bytes, most significant first, whose value is the payload
\* size N, for N in {0, 1, 255, 256, 65535, 65536, 2^24} and every other N
\* tried; type and channel before them are untouched.
C15_LengthField ==
  lenfield # << >>
    => /\ Len(lenfield) = 4
       /\ \A i \in 1..4 : lenfield[i] \in 0..255
       /\ lenfield[1] * 16777216 + lenfield[2] * 65536 + lenfield[3] * 256 + lenfield[4]
            = psize
       /\ (psize \in LengthCases => lenfield = ExpectedField(psize))
       /\ \E cf \in ChannelFrames :
            Take(wbuf, 3) = Take(FrameHeader(get_frame_type(cf[2]), cf[1], 0), 3)

C15_Witness ==
  psize = 16777216 /\ lenfield = <<1, 0, 0, 0>> /\ Len(wbuf) = FRAME_HEADER_SIZE

\* C16: write_frame(1, frame with empty payload) on a writer whose buffer is
\* empty, when it returns Ok, has handed the stream the 8 bytes type, 0, 1,
\* 0, 0, 0, 0, end marker in one flush, returns 8 and leaves the buffer empty.
C16_FreshWriterLayout ==
  (/\ wcall.op = "write_frame" /\ wcall.res = "Ok" /\ wcall.pre = << >>
   /\ wcall.channel = 1 /\ SerializeFrame(wcall.frame) = << >>)
    => /\ wcall.handed = <<get_frame_type(wcall.frame), 0, 1, 0, 0, 0, 0, FRAME_END>>
       /\ wcall.ret = 8
       /\ Last(wire) = [op |-> "write_frame", handed |-> wcall.handed,
                        taken |-> wcall.handed]
       /\ wbuf = << >>

C16_Witness ==
  /\ wcall.op = "write_frame" /\ wcall.res = "Ok" /\ wcall.pre = << >>
  /\ wcall.channel = 1 /\ wcall.frame = HeartBeat /\ wpc = "idle"
  /\ wcall.handed = <<FRAME_HEARTBEAT, 0, 1, 0, 0, 0, 0, FRAME_END>> /\ Len(wire) = 1

\* the number of bytes a call serializes into the buffer
SerializedLen(call) ==
  IF call.op = "write" THEN Len(ProtocolHeader)
  ELSE FRAME_HEADER_SIZE + Len(SerializeFrame(call.frame)) + 1

\* C14: after a call whose flush failed the buffer still holds everything
\* the call flushed, the bytes it serialized included, whatever part of them
\* the stream took; after a call whose flush succeeded the buffer is empty
\* and the call returned the number of bytes flushed.
C14_FlushFailureKeepsBuffer ==
  /\ (wcall.res = "IoError"
        => /\ wbuf = wcall.handed
           /\ Len(wbuf) = Len(wcall.pre) + SerializedLen(wcall)
           /\ (wcall.pre = << >> /\ wcall.op = "write_frame"
                 => wbuf = WireFrame(wcall.channel, wcall.frame))
           /\ (wcall.pre = << >> /\ wcall.op = "write" => wbuf = ProtocolHeader))
  /\ (wcall.res = "Ok"
        => wbuf = << >> /\ wcall.ret = Len(wcall.handed) /\ Last(wire).taken = wcall.handed)

C14_Witness ==
  /\ wcall.res = "IoError" /\ wcall.op = "write_frame" /\ wpc = "idle"
  /\ Last(wire).taken # << >> /\ wbuf = WireFrame(wcall.channel, wcall.frame)

\* a read_frame call begins in this step
ReadFrameBegins ==
  rpc = "idle" /\ (rpc' = "reading" \/ Len(rlog') > Len(rlog))

\* C13: a read_frame call that begins with a complete frame in the buffer
\* returns that frame, consumed from the buffer, without a stream read; the
\* reader never waits on the stream while its buffer holds a complete frame.
C13_BufferedFirst ==
  /\ [][ReadFrameBegins /\ Frame_decode(rbuf).tag = "Some"
         => LET d == Frame_decode(rbuf)
            IN  /\ rpc' = "idle" /\ ~sread'
                /\ rlog' = Append(rlog, Returned("Frame", d.channel, d.frame, FALSE))
                /\ rbuf' = Drop(rbuf, d.len)
                /\ rcvd' = rcvd /\ pending' = pending]_vars
  /\ [](rpc = "reading" => Frame_decode(rbuf).tag # "Some")

C13_Witness ==
  /\ rpc = "idle" /\ ~sread /\ Len(rlog) >= 2
  /\ rlog[Len(rlog) - 1].kind = "Frame" /\ Last(rlog).kind = "Frame"

\* the peer has sent nothing that is still unread and has not ended the stream
PeerSilent == pending = << >> /\ ~pclosed

\* C17: a step of the read_frame loop either returns (a frame or an error)
\* or has taken bytes from the stream and waits for the next stream read; a
\* read_frame call stays in the loop for ever only if from some point on the
\* peer is silent: it has sent no unread byte and has not ended the stream.
C17_ReadFrameProgress ==
  /\ [][rpc = "reading" /\ rvars' # rvars
         => \/ rpc' = "idle" /\ Len(rlog') = Len(rlog) + 1
            \/ /\ rpc' = "reading" /\ rlog' = rlog /\ sread'
               /\ Len(rcvd') > Len(rcvd)]_vars
  /\ (<>[](rpc = "reading") => <>[]PeerSilent)

C17_Witness ==
  /\ rpc = "reading" /\ sread /\ rbuf # << >> /\ pending # << >>
  /\ rlog # << >> /\ Last(rlog).kind = "Frame"

\* C18: once read_frame has failed on corrupted bytes the buffer is as the
\* failed decode found it; every later read_frame call fails with the decode
\* error again, reads nothing from the stream and returns no frame.
C18_StickyDecodeError ==
  \A i \in 1..Len(rlog) :
    rlog[i].kind = "Corrupted"
      => /\ \A j \in i..Len(rlog) : rlog[j].kind = "Corrupted"
         /\ rpc # "reading"
         /\ lastDecode.out = "Err" /\ lastDecode.after = lastDecode.before
         /\ rbuf = lastDecode.before
         /\ (i < Len(rlog) => ~sread)

C18_Witness ==
  /\ Len(rlog) >= 2 /\ Last(rlog).kind = "Corrupted"
  /\ rlog[Len(rlog) - 1].kind = "Corrupted" /\ pending # << >>

\* C19: when a read_frame call reports the end of the stream, every complete
\* frame the stream delivered has been returned by an earlier call, the
\* buffer holds no complete frame, and no later call returns a frame.
C19_NoFrameLostAtEof ==
  \A i \in 1..Len(rlog) :
    rlog[i].eof
      => /\ Frame_decode(rbuf).tag # "Some"
         /\ ReturnedPairs = FramesIn(rcvd)
         /\ \A j \in i..Len(rlog) : rlog[j].kind # "Frame"

C19_Witness ==
  /\ Len(rlog) = 3 /\ Last(rlog).eof
  /\ rlog[1].kind = "Frame" /\ rlog[2].kind = "Frame" /\ sread

\* C20: once a read_frame call has reported the end of the stream, every
\* later call that reaches the stream's end reports the same kind again; the
\* partial bytes of an interrupted close stay in the buffer.
C20_StableCloseKind ==
  \A i \in 1..Len(rlog) :
    rlog[i].eof
      => /\ \A j \in i..Len(rlog) :
              rlog[j].kind # "IoError" => rlog[j] = rlog[i]
         /\ (rlog[i].kind = "Interrupted"
               => rbuf # << >> /\ rbuf = Drop(rcvd, Len(ReturnedBytes)))
         /\ (rlog[i].kind = "CloseCallbackError" => rbuf = << >>)

C20_Witness ==
  /\ Len(rlog) >= 2 /\ Last(rlog).eof /\ Last(rlog).kind = "Interrupted"
  /\ rlog[Len(rlog) - 1].eof /\ rlog[Len(rlog) - 1].kind = "Interrupted"

\* close has been called on the writer, by itself or by SplitConnection::close
ExplicitClose == \E i \in 1..Len(closelog) : closelog[i] = "writer.shutdown"

====
